---- MODULE Spec2Model ----
(***************************************************************************)
(* The inclusion emulator of node/subsystem-util (staging.rs): Constraints *)
(* and their modification algebra (check_modifications,                   *)
(* apply_modifications), ConstraintModifications (identity, stack) and     *)
(* Fragment (new, validate_against_constraints).                           *)
(*                                                                         *)
(* Every operation of the file is a pure function of its arguments, so the *)
(* state of the model is the arguments of a call, the place the caller is  *)
(* at (pc) and the value the call returned (result).                       *)
(***************************************************************************)
EXTENDS Integers, Sequences, FiniteSets, TLC

VARIABLES
    pc,              \* the operation that acted last ("start" before any)
    constraints,     \* the Constraints a call receives as &self / argument
    modifications,   \* the ConstraintModifications a call receives
    hrmp_order,      \* the order in which modifications.outbound_hrmp iterates
    operands,        \* the ConstraintModifications the caller set out to stack
    queue,           \* the ConstraintModifications still to be stacked, oldest first
    relay_parent,    \* the RelayChainBlockInfo given to Fragment::new
    candidate,       \* the ProspectiveCandidate given to Fragment::new
    fragment,        \* Option<Fragment>: the Fragment that Fragment::new built
    result           \* the value the last call returned

vars == <<pc, constraints, modifications, hrmp_order, operands, queue,
          relay_parent, candidate, fragment, result>>

----------------------------------------------------------------------------
(* Bounds of the model.                                                    *)

\* Block numbers (watermarks, relay-parent numbers) range over 1..MaxBlock.
MaxBlock == 3
\* Every budget of the constraints drawn has Quota left; the amounts submitted
\* against a budget range over 0..Quota + 1 (below, at and above the budget).
Quota == 1
\* The three modifications stacked differ from identity() in at most
\* MaxTouched fields in total.
MaxTouched == 3
\* usize is modelled UsizeBits wide and u32 U32Bits wide (U32Bits < UsizeBits,
\* as on the 64-bit targets the node is built for).
UsizeBits == 4
U32Bits == 1
\* A chain holds at most MaxChain modifications applied one after another.
MaxChain == 3

UsizeMod == 2 ^ UsizeBits
UsizeMax == UsizeMod - 1
U32Mod == 2 ^ U32Bits

----------------------------------------------------------------------------
(* Option, Result and HashMap.                                             *)

None == <<>>
Some(v) == <<v>>
IsSome(o) == o # <<>>
Unwrap(o) == o[1]

Ok(v) == [ok |-> TRUE, val |-> v]
Err(e) == [ok |-> FALSE, err |-> e]
Unit == "()"

\* A HashMap with keys in K and values in V: a function on a subset of K.
HashMaps(K, V) == UNION {[S -> V] : S \in SUBSET K}
EmptyMap == [k \in {} |-> 0]
\* The orders in which iterating a HashMap with key set S can yield its keys.
IterOrders(S) ==
    {o \in [1..Cardinality(S) -> S] : \A i, j \in 1..Cardinality(S) : o[i] = o[j] => i = j}

\* usize::checked_sub
checked_sub(a, b) == IF a >= b THEN Some(a - b) ELSE None

\* Iterator::position(|w| w == &x) on a Vec: the 0-based index of the first match.
position(vec, x) ==
    IF \E i \in 1..Len(vec) : vec[i] = x
    THEN Some((CHOOSE i \in 1..Len(vec) :
                  vec[i] = x /\ \A j \in 1..(i - 1) : vec[j] # x) - 1)
    ELSE None

\* Vec::drain(..n): the vector left after removing its first n elements.
drain_to(vec, n) == SubSeq(vec, n + 1, Len(vec))

----------------------------------------------------------------------------
(* ModificationError                                                       *)

DisallowedHrmpWatermark(w) == [kind |-> "DisallowedHrmpWatermark", watermark |-> w]
NoSuchHrmpChannel(id) == [kind |-> "NoSuchHrmpChannel", para_id |-> id]
HrmpMessagesOverflow(id, remaining, submitted) ==
    [kind |-> "HrmpMessagesOverflow", para_id |-> id,
     messages_remaining |-> remaining, messages_submitted |-> submitted]
HrmpBytesOverflow(id, remaining, submitted) ==
    [kind |-> "HrmpBytesOverflow", para_id |-> id,
     bytes_remaining |-> remaining, bytes_submitted |-> submitted]
UmpMessagesOverflow(remaining, submitted) ==
    [kind |-> "UmpMessagesOverflow",
     messages_remaining |-> remaining, messages_submitted |-> submitted]
UmpBytesOverflow(remaining, submitted) ==
    [kind |-> "UmpBytesOverflow",
     bytes_remaining |-> remaining, bytes_submitted |-> submitted]
DmpMessagesUnderflow(remaining, processed) ==
    [kind |-> "DmpMessagesUnderflow",
     messages_remaining |-> remaining, messages_processed |-> processed]
AppliedNonexistentCodeUpgrade == [kind |-> "AppliedNonexistentCodeUpgrade"]

----------------------------------------------------------------------------
(* Constraints::check_modifications                                        *)

\* The loop over modifications.outbound_hrmp, from the i-th key of the
\* iteration order on: the first error, or None when every entry passes.
RECURSIVE check_outbound_hrmp(_, _, _, _)
check_outbound_hrmp(self, mods, order, i) ==
    IF i > Len(order) THEN None
    ELSE LET id == order[i]
             outbound_hrmp_mod == mods.outbound_hrmp[id]
         IN IF id \in DOMAIN self.hrmp_channels_out
            THEN LET outbound == self.hrmp_channels_out[id]
                 IN IF checked_sub(outbound.bytes_remaining,
                                   outbound_hrmp_mod.bytes_submitted) = None
                    THEN Some(HrmpBytesOverflow(id, outbound.bytes_remaining,
                                                outbound_hrmp_mod.bytes_submitted))
                    ELSE IF checked_sub(outbound.messages_remaining,
                                        outbound_hrmp_mod.messages_submitted) = None
                    THEN Some(HrmpMessagesOverflow(id, outbound.messages_remaining,
                                                   outbound_hrmp_mod.messages_submitted))
                    ELSE check_outbound_hrmp(self, mods, order, i + 1)
            ELSE Some(NoSuchHrmpChannel(id))

\* check_modifications comparing the UMP bytes before the UMP messages.
check_modifications_ump_bytes_first(self, mods, order) ==
    IF /\ IsSome(mods.hrmp_watermark)
       /\ position(self.hrmp_inbound.valid_watermarks, Unwrap(mods.hrmp_watermark)) = None
    THEN Err(DisallowedHrmpWatermark(Unwrap(mods.hrmp_watermark)))
    ELSE LET hrmp == check_outbound_hrmp(self, mods, order, 1)
         IN IF IsSome(hrmp) THEN Err(Unwrap(hrmp))
            ELSE IF checked_sub(self.ump_remaining_bytes, mods.ump_bytes_sent) = None
            THEN Err(UmpBytesOverflow(self.ump_remaining_bytes, mods.ump_bytes_sent))
            ELSE IF checked_sub(self.ump_remaining, mods.ump_messages_sent) = None
            THEN Err(UmpMessagesOverflow(self.ump_remaining, mods.ump_messages_sent))
            ELSE IF checked_sub(self.dmp_remaining_messages,
                                mods.dmp_messages_processed) = None
            THEN Err(DmpMessagesUnderflow(self.dmp_remaining_messages,
                                          mods.dmp_messages_processed))
            ELSE IF self.future_validation_code = None /\ mods.code_upgrade_applied
            THEN Err(AppliedNonexistentCodeUpgrade)
            ELSE Ok(Unit)

check_modifications(self, mods, order) ==
    IF /\ IsSome(mods.hrmp_watermark)
       /\ position(self.hrmp_inbound.valid_watermarks, Unwrap(mods.hrmp_watermark)) = None
    THEN Err(DisallowedHrmpWatermark(Unwrap(mods.hrmp_watermark)))
    ELSE LET hrmp == check_outbound_hrmp(self, mods, order, 1)
         IN IF IsSome(hrmp) THEN Err(Unwrap(hrmp))
            ELSE IF checked_sub(self.ump_remaining, mods.ump_messages_sent) = None
            THEN Err(UmpMessagesOverflow(self.ump_remaining, mods.ump_messages_sent))
            ELSE IF checked_sub(self.ump_remaining_bytes, mods.ump_bytes_sent) = None
            THEN Err(UmpBytesOverflow(self.ump_remaining_bytes, mods.ump_bytes_sent))
            ELSE IF checked_sub(self.dmp_remaining_messages,
                                mods.dmp_messages_processed) = None
            THEN Err(DmpMessagesUnderflow(self.dmp_remaining_messages,
                                          mods.dmp_messages_processed))
            ELSE IF self.future_validation_code = None /\ mods.code_upgrade_applied
            THEN Err(AppliedNonexistentCodeUpgrade)
            ELSE Ok(Unit)

----------------------------------------------------------------------------
(* Constraints::apply_modifications                                        *)

\* The loop over modifications.outbound_hrmp on new.hrmp_channels_out, from
\* the i-th key of the iteration order on: the updated channels, or the first
\* error.
RECURSIVE apply_outbound_hrmp(_, _, _, _)
apply_outbound_hrmp(channels, mods, order, i) ==
    IF i > Len(order) THEN Ok(channels)
    ELSE LET id == order[i]
             outbound_hrmp_mod == mods.outbound_hrmp[id]
         IN IF id \in DOMAIN channels
            THEN LET outbound == channels[id]
                     bytes == checked_sub(outbound.bytes_remaining,
                                          outbound_hrmp_mod.bytes_submitted)
                     messages == checked_sub(outbound.messages_remaining,
                                             outbound_hrmp_mod.messages_submitted)
                 IN IF bytes = None
                    THEN Err(HrmpBytesOverflow(id, outbound.bytes_remaining,
                                               outbound_hrmp_mod.bytes_submitted))
                    ELSE IF messages = None
                    THEN Err(HrmpMessagesOverflow(id, outbound.messages_remaining,
                                                  outbound_hrmp_mod.messages_submitted))
                    ELSE apply_outbound_hrmp(
                             [channels EXCEPT ![id] =
                                 [bytes_remaining |-> Unwrap(bytes),
                                  messages_remaining |-> Unwrap(messages)]],
                             mods, order, i + 1)
            ELSE Err(NoSuchHrmpChannel(id))

\* `new` after the required_parent override (lines 288-290).
apply_required_parent(new, mods) ==
    IF IsSome(mods.required_parent)
    THEN [new EXCEPT !.required_parent = Unwrap(mods.required_parent)]
    ELSE new

\* apply_hrmp_watermark draining ..pos instead of ..pos + 1.
apply_hrmp_watermark_keeps_consumed(new, mods) ==
    IF IsSome(mods.hrmp_watermark)
    THEN LET hrmp_watermark == Unwrap(mods.hrmp_watermark)
             pos == position(new.hrmp_inbound.valid_watermarks, hrmp_watermark)
         IN IF IsSome(pos)
            THEN Ok([new EXCEPT !.hrmp_inbound.valid_watermarks =
                                    drain_to(@, Unwrap(pos))])
            ELSE Err(DisallowedHrmpWatermark(hrmp_watermark))
    ELSE Ok(new)

\* apply_hrmp_watermark leaving valid_watermarks as it was.
apply_hrmp_watermark_drains_nothing(new, mods) ==
    IF IsSome(mods.hrmp_watermark)
    THEN LET hrmp_watermark == Unwrap(mods.hrmp_watermark)
             pos == position(new.hrmp_inbound.valid_watermarks, hrmp_watermark)
         IN IF IsSome(pos)
            THEN Ok(new)
            ELSE Err(DisallowedHrmpWatermark(hrmp_watermark))
    ELSE Ok(new)

\* `new` after the watermark step (lines 292-305): Ok(new) or the error.
apply_hrmp_watermark(new, mods) ==
    IF IsSome(mods.hrmp_watermark)
    THEN LET hrmp_watermark == Unwrap(mods.hrmp_watermark)
             pos == position(new.hrmp_inbound.valid_watermarks, hrmp_watermark)
         IN IF IsSome(pos)
            THEN Ok([new EXCEPT !.hrmp_inbound.valid_watermarks =
                                    drain_to(@, Unwrap(pos) + 1)])
            ELSE Err(DisallowedHrmpWatermark(hrmp_watermark))
    ELSE Ok(new)

\* apply_ump_dmp subtracting the UMP bytes with wrapping_sub instead of
\* checked_sub.
apply_ump_dmp_wrapping(new, mods) ==
    LET ump == checked_sub(new.ump_remaining, mods.ump_messages_sent)
        ump_bytes == Some((new.ump_remaining_bytes - mods.ump_bytes_sent) % UsizeMod)
        dmp == checked_sub(new.dmp_remaining_messages, mods.dmp_messages_processed)
    IN IF ump = None
       THEN Err(UmpMessagesOverflow(new.ump_remaining, mods.ump_messages_sent))
       ELSE IF dmp = None
       THEN Err(DmpMessagesUnderflow(new.dmp_remaining_messages,
                                     mods.dmp_messages_processed))
       ELSE Ok([new EXCEPT !.ump_remaining = Unwrap(ump),
                           !.ump_remaining_bytes = Unwrap(ump_bytes),
                           !.dmp_remaining_messages = Unwrap(dmp)])

\* `new` after the UMP and DMP budgets (lines 331-352): Ok(new) or the error.
apply_ump_dmp(new, mods) ==
    LET ump == checked_sub(new.ump_remaining, mods.ump_messages_sent)
        ump_bytes == checked_sub(new.ump_remaining_bytes, mods.ump_bytes_sent)
        dmp == checked_sub(new.dmp_remaining_messages, mods.dmp_messages_processed)
    IN IF ump = None
       THEN Err(UmpMessagesOverflow(new.ump_remaining, mods.ump_messages_sent))
       ELSE IF ump_bytes = None
       THEN Err(UmpBytesOverflow(new.ump_remaining_bytes, mods.ump_bytes_sent))
       ELSE IF dmp = None
       THEN Err(DmpMessagesUnderflow(new.dmp_remaining_messages,
                                     mods.dmp_messages_processed))
       ELSE Ok([new EXCEPT !.ump_remaining = Unwrap(ump),
                           !.ump_remaining_bytes = Unwrap(ump_bytes),
                           !.dmp_remaining_messages = Unwrap(dmp)])

\* apply_code_upgrade keeping the current code when no upgrade is pending,
\* instead of failing.
apply_code_upgrade_lenient(new, mods) ==
    IF mods.code_upgrade_applied /\ IsSome(new.future_validation_code)
    THEN Ok([new EXCEPT !.validation_code_hash =
                            Unwrap(new.future_validation_code)[2],
                        !.future_validation_code = None])
    ELSE Ok(new)

\* apply_code_upgrade reading the pending upgrade without take(): the
\* upgrade stays pending.
apply_code_upgrade_keeps_pending(new, mods) ==
    IF mods.code_upgrade_applied
    THEN IF IsSome(new.future_validation_code)
         THEN Ok([new EXCEPT !.validation_code_hash =
                                 Unwrap(new.future_validation_code)[2]])
         ELSE Err(AppliedNonexistentCodeUpgrade)
    ELSE Ok(new)

\* `new` after the code upgrade (lines 354-360): Ok(new) or the error.
apply_code_upgrade(new, mods) ==
    IF mods.code_upgrade_applied
    THEN IF IsSome(new.future_validation_code)
         THEN Ok([new EXCEPT !.validation_code_hash =
                                 Unwrap(new.future_validation_code)[2],
                             !.future_validation_code = None])
         ELSE Err(AppliedNonexistentCodeUpgrade)
    ELSE Ok(new)

apply_modifications(self, mods, order) ==
    LET new1 == apply_required_parent(self, mods)
        new2 == apply_hrmp_watermark(new1, mods)
    IN IF ~new2.ok THEN new2
       ELSE LET hrmp == apply_outbound_hrmp(new2.val.hrmp_channels_out, mods, order, 1)
            IN IF ~hrmp.ok THEN hrmp
               ELSE LET new3 == [new2.val EXCEPT !.hrmp_channels_out = hrmp.val]
                        new4 == apply_ump_dmp(new3, mods)
                    IN IF ~new4.ok THEN new4
                       ELSE apply_code_upgrade(new4.val, mods)

----------------------------------------------------------------------------
(* ConstraintModifications::identity                                       *)

\* identity() naming the current watermark instead of none.
identity_with_watermark ==
    [required_parent |-> None,
     hrmp_watermark |-> Some(0),
     outbound_hrmp |-> EmptyMap,
     ump_messages_sent |-> 0,
     ump_bytes_sent |-> 0,
     dmp_messages_processed |-> 0,
     code_upgrade_applied |-> FALSE]

identity ==
    [required_parent |-> None,
     hrmp_watermark |-> None,
     outbound_hrmp |-> EmptyMap,
     ump_messages_sent |-> 0,
     ump_bytes_sent |-> 0,
     dmp_messages_processed |-> 0,
     code_upgrade_applied |-> FALSE]

----------------------------------------------------------------------------
(* ConstraintModifications::stack                                          *)

\* OutboundHrmpChannelModification::default(), which or_default() inserts.
default_channel_modification == [bytes_submitted |-> 0, messages_submitted |-> 0]

\* usize += usize where the build wraps on overflow (overflow-checks off).
wrapping_add(a, b) == (a + b) % UsizeMod

\* Some `+=` of self.stack(other) exceeds usize: with overflow-checks on (a
\* debug build) the call panics there.
stack_overflows(self, other) ==
    \/ \E id \in DOMAIN other.outbound_hrmp :
          LET record == IF id \in DOMAIN self.outbound_hrmp
                        THEN self.outbound_hrmp[id]
                        ELSE default_channel_modification
          IN \/ record.messages_submitted
                   + other.outbound_hrmp[id].messages_submitted > UsizeMax
             \/ record.bytes_submitted
                   + other.outbound_hrmp[id].bytes_submitted > UsizeMax
    \/ self.ump_messages_sent + other.ump_messages_sent > UsizeMax
    \/ self.ump_bytes_sent + other.ump_bytes_sent > UsizeMax
    \/ self.dmp_messages_processed + other.dmp_messages_processed > UsizeMax

\* `if let Some(ref new) = other.field { self.field = Some(new.clone()) }`
override(current, new) == IF IsSome(new) THEN new ELSE current

\* self.outbound_hrmp after the loop over other.outbound_hrmp (lines 434-438).
stack_outbound_hrmp(self, other) ==
    [id \in DOMAIN self.outbound_hrmp \cup DOMAIN other.outbound_hrmp |->
        IF id \in DOMAIN other.outbound_hrmp
        THEN LET record == IF id \in DOMAIN self.outbound_hrmp
                           THEN self.outbound_hrmp[id]
                           ELSE default_channel_modification
                 mods == other.outbound_hrmp[id]
             IN [bytes_submitted |->
                    wrapping_add(record.bytes_submitted, mods.bytes_submitted),
                 messages_submitted |->
                    wrapping_add(record.messages_submitted, mods.messages_submitted)]
        ELSE self.outbound_hrmp[id]]

\* stack keeping self's overrides when both are present (the operands of the
\* override swapped).
stack_keeps_older(self, other) ==
    [required_parent |-> override(other.required_parent, self.required_parent),
     hrmp_watermark |-> override(other.hrmp_watermark, self.hrmp_watermark),
     outbound_hrmp |-> stack_outbound_hrmp(self, other),
     ump_messages_sent |-> wrapping_add(self.ump_messages_sent, other.ump_messages_sent),
     ump_bytes_sent |-> wrapping_add(self.ump_bytes_sent, other.ump_bytes_sent),
     dmp_messages_processed |->
        wrapping_add(self.dmp_messages_processed, other.dmp_messages_processed),
     code_upgrade_applied |-> self.code_upgrade_applied \/ other.code_upgrade_applied]

\* stack with `code_upgrade_applied = other.code_upgrade_applied` in place of
\* `|=`.
stack_assigns_upgrade(self, other) ==
    [required_parent |-> override(self.required_parent, other.required_parent),
     hrmp_watermark |-> override(self.hrmp_watermark, other.hrmp_watermark),
     outbound_hrmp |-> stack_outbound_hrmp(self, other),
     ump_messages_sent |-> wrapping_add(self.ump_messages_sent, other.ump_messages_sent),
     ump_bytes_sent |-> wrapping_add(self.ump_bytes_sent, other.ump_bytes_sent),
     dmp_messages_processed |->
        wrapping_add(self.dmp_messages_processed, other.dmp_messages_processed),
     code_upgrade_applied |-> other.code_upgrade_applied]

\* stack taking the UMP and DMP counters of `other` instead of adding them.
stack_replaces_counters(self, other) ==
    [required_parent |-> override(self.required_parent, other.required_parent),
     hrmp_watermark |-> override(self.hrmp_watermark, other.hrmp_watermark),
     outbound_hrmp |-> stack_outbound_hrmp(self, other),
     ump_messages_sent |-> other.ump_messages_sent,
     ump_bytes_sent |-> other.ump_bytes_sent,
     dmp_messages_processed |-> other.dmp_messages_processed,
     code_upgrade_applied |-> self.code_upgrade_applied \/ other.code_upgrade_applied]

\* self after self.stack(&other) returned (no `+=` panicked).
stack(self, other) ==
    [required_parent |-> override(self.required_parent, other.required_parent),
     hrmp_watermark |-> override(self.hrmp_watermark, other.hrmp_watermark),
     outbound_hrmp |-> stack_outbound_hrmp(self, other),
     ump_messages_sent |-> wrapping_add(self.ump_messages_sent, other.ump_messages_sent),
     ump_bytes_sent |-> wrapping_add(self.ump_bytes_sent, other.ump_bytes_sent),
     dmp_messages_processed |->
        wrapping_add(self.dmp_messages_processed, other.dmp_messages_processed),
     code_upgrade_applied |-> self.code_upgrade_applied \/ other.code_upgrade_applied]

----------------------------------------------------------------------------
(* FragmentValidityError                                                   *)

ValidationCodeMismatch(expected, got) ==
    [kind |-> "ValidationCodeMismatch", expected |-> expected, got |-> got]
PersistedValidationDataMismatch(expected, got) ==
    [kind |-> "PersistedValidationDataMismatch", expected |-> expected, got |-> got]
OutputsInvalid(e) == [kind |-> "OutputsInvalid", error |-> e]

----------------------------------------------------------------------------
(* validate_against_constraints                                            *)

\* `x as u32` for a usize x.
as_u32(x) == x % U32Mod

validate_against_constraints(cons, relay, cand, mods, order) ==
    LET expected_pvd ==
            [parent_head |-> cons.required_parent,
             relay_parent_number |-> relay.number,
             relay_parent_storage_root |-> relay.storage_root,
             max_pov_size |-> as_u32(cons.max_pov_size)]
        checked == check_modifications(cons, mods, order)
    IN IF expected_pvd # cand.persisted_validation_data
       THEN Err(PersistedValidationDataMismatch(expected_pvd,
                                                cand.persisted_validation_data))
       ELSE IF cons.validation_code_hash # cand.validation_code_hash
       THEN Err(ValidationCodeMismatch(cons.validation_code_hash,
                                       cand.validation_code_hash))
       ELSE IF checked.ok THEN Ok(Unit) ELSE Err(OutputsInvalid(checked.err))

----------------------------------------------------------------------------
(* Fragment::new                                                           *)

\* The outbound_hrmp map after the first n horizontal messages (lines
\* 514-522). The lengths of messages held in memory add up within usize.
RECURSIVE outbound_hrmp_of(_, _)
outbound_hrmp_of(messages, n) ==
    IF n = 0 THEN EmptyMap
    ELSE LET outbound_hrmp == outbound_hrmp_of(messages, n - 1)
             message == messages[n]
             record == IF message.recipient \in DOMAIN outbound_hrmp
                       THEN outbound_hrmp[message.recipient]
                       ELSE default_channel_modification
             updated == [bytes_submitted |-> record.bytes_submitted + Len(message.data),
                         messages_submitted |-> record.messages_submitted + 1]
         IN [id \in DOMAIN outbound_hrmp \cup {message.recipient} |->
                IF id = message.recipient THEN updated ELSE outbound_hrmp[id]]

\* upward_messages.iter().map(|msg| msg.len()).sum() over the first n messages.
RECURSIVE sum_of_lengths(_, _)
sum_of_lengths(messages, n) ==
    IF n = 0 THEN 0 ELSE sum_of_lengths(messages, n - 1) + Len(messages[n])

\* derive_modifications with the record of a recipient assigned from its last
\* message instead of accumulated over all of them.
derive_modifications_last_message_only(relay, cons, cand) ==
    LET commitments == cand.commitments
        recipients == {commitments.horizontal_messages[i].recipient :
                          i \in 1..Len(commitments.horizontal_messages)}
        last(r) == CHOOSE i \in 1..Len(commitments.horizontal_messages) :
                      /\ commitments.horizontal_messages[i].recipient = r
                      /\ \A j \in (i + 1)..Len(commitments.horizontal_messages) :
                            commitments.horizontal_messages[j].recipient # r
    IN [required_parent |-> Some(commitments.head_data),
        hrmp_watermark |-> Some(commitments.hrmp_watermark),
        outbound_hrmp |->
            [r \in recipients |->
                [bytes_submitted |-> Len(commitments.horizontal_messages[last(r)].data),
                 messages_submitted |-> 1]],
        ump_messages_sent |-> Len(commitments.upward_messages),
        ump_bytes_sent |->
            sum_of_lengths(commitments.upward_messages, Len(commitments.upward_messages)),
        dmp_messages_processed |-> commitments.processed_downward_messages,
        code_upgrade_applied |->
            IF IsSome(cons.future_validation_code)
            THEN relay.number >= Unwrap(cons.future_validation_code)[1]
            ELSE FALSE]

\* derive_modifications with the upgrade applied only strictly after the
\* block it is scheduled at.
derive_modifications_strictly_after(relay, cons, cand) ==
    LET commitments == cand.commitments
    IN [required_parent |-> Some(commitments.head_data),
        hrmp_watermark |-> Some(commitments.hrmp_watermark),
        outbound_hrmp |->
            outbound_hrmp_of(commitments.horizontal_messages,
                             Len(commitments.horizontal_messages)),
        ump_messages_sent |-> Len(commitments.upward_messages),
        ump_bytes_sent |->
            sum_of_lengths(commitments.upward_messages, Len(commitments.upward_messages)),
        dmp_messages_processed |-> commitments.processed_downward_messages,
        code_upgrade_applied |->
            IF IsSome(cons.future_validation_code)
            THEN relay.number > Unwrap(cons.future_validation_code)[1]
            ELSE FALSE]

\* The `modifications` that Fragment::new derives (lines 508-531).
derive_modifications(relay, cons, cand) ==
    LET commitments == cand.commitments
    IN [required_parent |-> Some(commitments.head_data),
        hrmp_watermark |-> Some(commitments.hrmp_watermark),
        outbound_hrmp |->
            outbound_hrmp_of(commitments.horizontal_messages,
                             Len(commitments.horizontal_messages)),
        ump_messages_sent |-> Len(commitments.upward_messages),
        ump_bytes_sent |->
            sum_of_lengths(commitments.upward_messages, Len(commitments.upward_messages)),
        \* `as _`: u32 to usize, which holds every u32
        dmp_messages_processed |-> commitments.processed_downward_messages,
        code_upgrade_applied |->
            IF IsSome(cons.future_validation_code)
            THEN relay.number >= Unwrap(cons.future_validation_code)[1]
            ELSE FALSE]

\* Fragment::new, given the modifications it derived and the order their
\* outbound_hrmp iterates in.
Fragment_new(relay, operating_constraints, cand, mods, order) ==
    LET validated ==
            validate_against_constraints(operating_constraints, relay, cand, mods, order)
    IN IF validated.ok
       THEN Ok([relay_parent |-> relay,
                operating_constraints |-> operating_constraints,
                candidate |-> cand,
                modifications |-> mods])
       ELSE validated

----------------------------------------------------------------------------
(* The values the inputs are drawn from.                                   *)

\* HeadData and ValidationCodeHash are opaque: they are only compared and copied.
HeadDatas == {"head1", "head2"}
CodeHashes == {"code1", "code2"}
ParaIds == {1, 2}
BlockNumbers == 1..MaxBlock

\* The vectors over 1..n sorted ascending without duplicates, which is how
\* valid_watermarks is kept (line 114).
RECURSIVE AscendingVecs(_)
AscendingVecs(n) ==
    IF n = 0 THEN {<<>>}
    ELSE AscendingVecs(n - 1) \cup {Append(v, n) : v \in AscendingVecs(n - 1)}

\* The vector <<from, from + 1, ..., to>>.
RangeVec(from, to) == [i \in 1..(to - from + 1) |-> from + i - 1]

Limitations(q) == [bytes_remaining |-> q, messages_remaining |-> q]

\* Constraints with every budget at q.
MkConstraints(q, watermarks, channels, future) ==
    [ump_remaining |-> q,
     ump_remaining_bytes |-> q,
     dmp_remaining_messages |-> q,
     hrmp_inbound |-> [valid_watermarks |-> watermarks],
     hrmp_channels_out |-> channels,
     max_pov_size |-> 1,
     max_hrmp_num_per_candidate |-> 1,
     required_parent |-> "head1",
     validation_code_hash |-> "code1",
     go_ahead |-> "GoAhead",
     upgrade_restriction |-> None,
     future_validation_code |-> future]

Submitted == 0..(Quota + 1)
ChannelModifications == [bytes_submitted : Submitted, messages_submitted : Submitted]
FutureCodes == {None, Some(<<1, "code2">>)}

\* Budgets: every submitted amount against every budget, a watermark that is
\* absent, allowed or disallowed, a pending upgrade or none.
BudgetInputs ==
    {<<c, m>> :
        c \in UNION {{MkConstraints(q, RangeVec(2, MaxBlock), ch, f) :
                         ch \in HashMaps({1}, {Limitations(q)}),
                         f \in FutureCodes} : q \in 0..Quota},
        m \in [required_parent : {None, Some("head2")},
               hrmp_watermark : {None, Some(1), Some(MaxBlock)},
               outbound_hrmp : HashMaps({1}, ChannelModifications),
               ump_messages_sent : Submitted,
               ump_bytes_sent : Submitted,
               dmp_messages_processed : Submitted,
               code_upgrade_applied : BOOLEAN]}

\* Watermarks: every ascending list of valid watermarks against every watermark.
WatermarkInputs ==
    {<<c, m>> :
        c \in {MkConstraints(Quota, w, 1 :> Limitations(Quota), f) :
                  w \in AscendingVecs(MaxBlock), f \in FutureCodes},
        m \in [required_parent : {None, Some("head2")},
               hrmp_watermark : {None} \cup {Some(w) : w \in BlockNumbers},
               outbound_hrmp : {EmptyMap},
               ump_messages_sent : {0, Quota + 1},
               ump_bytes_sent : {0},
               dmp_messages_processed : {0},
               code_upgrade_applied : BOOLEAN]}

\* Channels: modifications of several channels, registered or not.
ChannelInputs ==
    {<<c, m>> :
        c \in {MkConstraints(Quota, RangeVec(1, MaxBlock), ch, None) :
                  ch \in HashMaps(ParaIds, {Limitations(Quota)})},
        m \in [required_parent : {None},
               hrmp_watermark : {None},
               outbound_hrmp : [ParaIds -> [bytes_submitted : {0, Quota + 1},
                                            messages_submitted : {0, Quota + 1}]],
               ump_messages_sent : {0, Quota + 1},
               ump_bytes_sent : {0},
               dmp_messages_processed : {0},
               code_upgrade_applied : {FALSE}]}

ModificationInputs == BudgetInputs \cup WatermarkInputs \cup ChannelInputs

\* What the variables a specification does not use hold.
Idle == "idle"

----------------------------------------------------------------------------
(* SpecModifications: a caller holding constraints and modifications calls *)
(* check_modifications and apply_modifications on them.                    *)

InitModifications ==
    /\ pc = "start"
    /\ \E in \in ModificationInputs :
          /\ constraints = in[1]
          /\ modifications = in[2]
    /\ hrmp_order \in IterOrders(DOMAIN modifications.outbound_hrmp)
    /\ operands = Idle /\ queue = Idle
    /\ relay_parent = Idle /\ candidate = Idle /\ fragment = Idle
    /\ result = Idle

\* constraints.check_modifications(&modifications)
CheckModifications ==
    /\ pc' = "check_modifications"
    /\ result' = check_modifications(constraints, modifications, hrmp_order)
    /\ UNCHANGED <<constraints, modifications, hrmp_order, operands, queue,
                   relay_parent, candidate, fragment>>

\* constraints.apply_modifications(&modifications)
ApplyModifications ==
    /\ pc' = "apply_modifications"
    /\ result' = apply_modifications(constraints, modifications, hrmp_order)
    /\ UNCHANGED <<constraints, modifications, hrmp_order, operands, queue,
                   relay_parent, candidate, fragment>>

\* constraints.apply_modifications(&ConstraintModifications::identity())
ApplyIdentity ==
    /\ pc' = "apply_identity"
    /\ modifications' = identity
    /\ hrmp_order' \in IterOrders(DOMAIN modifications'.outbound_hrmp)
    /\ result' = apply_modifications(constraints, modifications', hrmp_order')
    /\ UNCHANGED <<constraints, operands, queue, relay_parent, candidate, fragment>>

NextModifications == CheckModifications \/ ApplyModifications \/ ApplyIdentity

SpecModifications == InitModifications /\ [][NextModifications]_vars

----------------------------------------------------------------------------
(* What the claims speak of, stated on the inputs alone.                   *)

\* The watermark of m is absent or is one of c's valid watermarks.
WatermarkAllowed(c, m) ==
    \/ m.hrmp_watermark = None
    \/ \E p \in 1..Len(c.hrmp_inbound.valid_watermarks) :
          c.hrmp_inbound.valid_watermarks[p] = Unwrap(m.hrmp_watermark)

ChannelsRegistered(c, m) == DOMAIN m.outbound_hrmp \subseteq DOMAIN c.hrmp_channels_out

BytesWithin(c, m, id) ==
    m.outbound_hrmp[id].bytes_submitted <= c.hrmp_channels_out[id].bytes_remaining
MessagesWithin(c, m, id) ==
    m.outbound_hrmp[id].messages_submitted <= c.hrmp_channels_out[id].messages_remaining

\* No entry of m.outbound_hrmp exceeds its (registered) channel.
HrmpWithin(c, m) ==
    /\ ChannelsRegistered(c, m)
    /\ \A id \in DOMAIN m.outbound_hrmp : BytesWithin(c, m, id) /\ MessagesWithin(c, m, id)

UmpMessagesWithin(c, m) == m.ump_messages_sent <= c.ump_remaining
UmpBytesWithin(c, m) == m.ump_bytes_sent <= c.ump_remaining_bytes
DmpWithin(c, m) == m.dmp_messages_processed <= c.dmp_remaining_messages
BudgetsWithin(c, m) ==
    HrmpWithin(c, m) /\ UmpMessagesWithin(c, m) /\ UmpBytesWithin(c, m) /\ DmpWithin(c, m)

UpgradeAvailable(c, m) == m.code_upgrade_applied => c.future_validation_code # None

\* The entries of order before the one of id all pass.
EarlierEntriesWithin(c, m, order, id) ==
    \A i, j \in 1..Len(order) :
        (order[j] = id /\ i < j) =>
            /\ order[i] \in DOMAIN c.hrmp_channels_out
            /\ BytesWithin(c, m, order[i])
            /\ MessagesWithin(c, m, order[i])

Called(ops) == pc \in ops
CheckOrApply == {"check_modifications", "apply_modifications"}

----------------------------------------------------------------------------
(* C1                                                                      *)

\* C1: check_modifications returns Ok exactly when apply_modifications returns
\* Ok on the same constraints and modifications, and neither call changes the
\* constraints it is called on.
C1_CheckIffApply ==
    /\ [](/\ pc = "check_modifications" =>
                (result.ok <=>
                    apply_modifications(constraints, modifications, hrmp_order).ok)
          /\ pc = "apply_modifications" =>
                (result.ok <=>
                    check_modifications(constraints, modifications, hrmp_order).ok))
    /\ [][pc' \in CheckOrApply => constraints' = constraints]_vars

\* check_modifications accepted modifications that touch every kind of budget.
C1_Witness ==
    /\ pc = "check_modifications" /\ result.ok
    /\ modifications.code_upgrade_applied
    /\ modifications.hrmp_watermark # None
    /\ modifications.outbound_hrmp # EmptyMap
    /\ modifications.ump_messages_sent > 0

----------------------------------------------------------------------------
(* C2                                                                      *)

\* C2: applying identity() to any constraints succeeds and returns constraints
\* equal to the original in every field.
C2_IdentityIsNoOp ==
    pc = "apply_identity" => result = Ok(constraints)

\* identity() was applied to constraints with a channel and a pending upgrade.
C2_Witness ==
    /\ pc = "apply_identity" /\ result.ok
    /\ constraints.future_validation_code # None
    /\ constraints.hrmp_channels_out # EmptyMap
    /\ Len(constraints.hrmp_inbound.valid_watermarks) > 1

----------------------------------------------------------------------------
(* C3                                                                      *)

\* The entries of vec after its p-th (1-based).
After(vec, p) == [i \in 1..(Len(vec) - p) |-> vec[p + i]]

\* C3: with hrmp_watermark = Some(w), a successful apply_modifications leaves
\* exactly the valid watermarks after the position of w; if w is not a valid
\* watermark, check_modifications and apply_modifications fail with
\* DisallowedHrmpWatermark(w); with hrmp_watermark = None the valid watermarks
\* are unchanged.
C3_WatermarkConsumed ==
    LET valid == constraints.hrmp_inbound.valid_watermarks
        wm == modifications.hrmp_watermark
    IN /\ (pc = "apply_modifications" /\ result.ok /\ wm # None) =>
              \E p \in 1..Len(valid) :
                  /\ valid[p] = Unwrap(wm)
                  /\ result.val.hrmp_inbound.valid_watermarks = After(valid, p)
       /\ (Called(CheckOrApply) /\ ~WatermarkAllowed(constraints, modifications)) =>
              result = Err(DisallowedHrmpWatermark(Unwrap(wm)))
       /\ (pc = "apply_modifications" /\ result.ok /\ wm = None) =>
              result.val.hrmp_inbound.valid_watermarks = valid

\* A watermark in the middle of the list was applied: the entries before it
\* and itself are gone, the entry after it is left.
C3_Witness ==
    /\ pc = "apply_modifications" /\ result.ok
    /\ constraints.hrmp_inbound.valid_watermarks = <<1, 2, 3>>
    /\ modifications.hrmp_watermark = Some(2)
    /\ result.val.hrmp_inbound.valid_watermarks = <<3>>

----------------------------------------------------------------------------
(* C4                                                                      *)

\* Some submitted amount of m exceeds the budget of c it is charged to.
ExceedsSomeBudget(c, m) ==
    \/ \E id \in DOMAIN m.outbound_hrmp \cap DOMAIN c.hrmp_channels_out :
          ~BytesWithin(c, m, id) \/ ~MessagesWithin(c, m, id)
    \/ ~UmpMessagesWithin(c, m) \/ ~UmpBytesWithin(c, m) \/ ~DmpWithin(c, m)

\* new holds, for every budget, what c had left minus what m submitted.
BudgetsCharged(c, m, new) ==
    /\ new.ump_remaining = c.ump_remaining - m.ump_messages_sent
    /\ new.ump_remaining_bytes = c.ump_remaining_bytes - m.ump_bytes_sent
    /\ new.dmp_remaining_messages = c.dmp_remaining_messages - m.dmp_messages_processed
    /\ DOMAIN new.hrmp_channels_out = DOMAIN c.hrmp_channels_out
    /\ \A id \in DOMAIN c.hrmp_channels_out :
          IF id \in DOMAIN m.outbound_hrmp
          THEN /\ new.hrmp_channels_out[id].bytes_remaining =
                     c.hrmp_channels_out[id].bytes_remaining
                         - m.outbound_hrmp[id].bytes_submitted
               /\ new.hrmp_channels_out[id].messages_remaining =
                     c.hrmp_channels_out[id].messages_remaining
                         - m.outbound_hrmp[id].messages_submitted
          ELSE new.hrmp_channels_out[id] = c.hrmp_channels_out[id]

\* Every budget of new is a usize that did not wrap around.
NoBudgetWrapped(c, new) ==
    /\ new.ump_remaining \in 0..c.ump_remaining
    /\ new.ump_remaining_bytes \in 0..c.ump_remaining_bytes
    /\ new.dmp_remaining_messages \in 0..c.dmp_remaining_messages
    /\ \A id \in DOMAIN new.hrmp_channels_out :
          /\ new.hrmp_channels_out[id].bytes_remaining
                 \in 0..c.hrmp_channels_out[id].bytes_remaining
          /\ new.hrmp_channels_out[id].messages_remaining
                 \in 0..c.hrmp_channels_out[id].messages_remaining

\* The success half of C4: all amounts within their budgets and the other
\* checks passing, every budget is charged exactly.
C4_ChargedWhenWithin ==
    (/\ BudgetsWithin(constraints, modifications)
     /\ WatermarkAllowed(constraints, modifications)
     /\ UpgradeAvailable(constraints, modifications)) =>
        /\ result.ok
        /\ BudgetsCharged(constraints, modifications, result.val)

\* C4 as stated: whenever a submitted amount exceeds its budget,
\* apply_modifications fails with the error of that very budget, carrying the
\* remaining and the submitted amount; and amounts within their budgets are
\* charged exactly.
C4_Original ==
    pc = "apply_modifications" =>
        LET c == constraints
            m == modifications
        IN /\ \A id \in DOMAIN m.outbound_hrmp \cap DOMAIN c.hrmp_channels_out :
                 /\ ~BytesWithin(c, m, id) =>
                        result = Err(HrmpBytesOverflow(id,
                                        c.hrmp_channels_out[id].bytes_remaining,
                                        m.outbound_hrmp[id].bytes_submitted))
                 /\ ~MessagesWithin(c, m, id) =>
                        result = Err(HrmpMessagesOverflow(id,
                                        c.hrmp_channels_out[id].messages_remaining,
                                        m.outbound_hrmp[id].messages_submitted))
           /\ ~UmpMessagesWithin(c, m) =>
                 result = Err(UmpMessagesOverflow(c.ump_remaining, m.ump_messages_sent))
           /\ ~UmpBytesWithin(c, m) =>
                 result = Err(UmpBytesOverflow(c.ump_remaining_bytes, m.ump_bytes_sent))
           /\ ~DmpWithin(c, m) =>
                 result = Err(DmpMessagesUnderflow(c.dmp_remaining_messages,
                                                   m.dmp_messages_processed))
           /\ (result.ok => NoBudgetWrapped(c, result.val))
           /\ C4_ChargedWhenWithin

\* C4 (amended): whenever a submitted amount exceeds its budget,
\* apply_modifications fails and produces no wrapped-around budget; the error
\* is that budget's error, carrying the constraint's original remaining value
\* and the submitted value, when no check made before it fails (the
\* watermark, the HRMP entries iterated before it, bytes before messages of one
\* channel, then UMP messages, UMP bytes, DMP messages); and amounts within
\* their budgets, the other checks passing, are charged exactly.
C4_BudgetsEnforced ==
    pc = "apply_modifications" =>
        LET c == constraints
            m == modifications
            wm == WatermarkAllowed(c, m)
        IN /\ ExceedsSomeBudget(c, m) => ~result.ok
           /\ result.ok => NoBudgetWrapped(c, result.val)
           /\ \A id \in DOMAIN m.outbound_hrmp \cap DOMAIN c.hrmp_channels_out :
                 /\ (wm /\ EarlierEntriesWithin(c, m, hrmp_order, id)
                        /\ ~BytesWithin(c, m, id)) =>
                        result = Err(HrmpBytesOverflow(id,
                                        c.hrmp_channels_out[id].bytes_remaining,
                                        m.outbound_hrmp[id].bytes_submitted))
                 /\ (wm /\ EarlierEntriesWithin(c, m, hrmp_order, id)
                        /\ BytesWithin(c, m, id) /\ ~MessagesWithin(c, m, id)) =>
                        result = Err(HrmpMessagesOverflow(id,
                                        c.hrmp_channels_out[id].messages_remaining,
                                        m.outbound_hrmp[id].messages_submitted))
           /\ (wm /\ HrmpWithin(c, m) /\ ~UmpMessagesWithin(c, m)) =>
                 result = Err(UmpMessagesOverflow(c.ump_remaining, m.ump_messages_sent))
           /\ (wm /\ HrmpWithin(c, m) /\ UmpMessagesWithin(c, m)
                  /\ ~UmpBytesWithin(c, m)) =>
                 result = Err(UmpBytesOverflow(c.ump_remaining_bytes, m.ump_bytes_sent))
           /\ (wm /\ HrmpWithin(c, m) /\ UmpMessagesWithin(c, m)
                  /\ UmpBytesWithin(c, m) /\ ~DmpWithin(c, m)) =>
                 result = Err(DmpMessagesUnderflow(c.dmp_remaining_messages,
                                                   m.dmp_messages_processed))
           /\ C4_ChargedWhenWithin

\* A channel with Quota bytes left was sent Quota + 1 bytes, and the error
\* carries both.
C4_Witness ==
    /\ pc = "apply_modifications"
    /\ result = Err(HrmpBytesOverflow(1, Quota, Quota + 1))

----------------------------------------------------------------------------
(* C5                                                                      *)

\* The last two thirds of C5: a pending upgrade is applied when all other
\* checks pass, and without code_upgrade_applied the code fields are kept.
C5_UpgradeApplied ==
    LET c == constraints
        m == modifications
    IN /\ (/\ pc = "apply_modifications"
           /\ m.code_upgrade_applied /\ c.future_validation_code # None
           /\ WatermarkAllowed(c, m) /\ BudgetsWithin(c, m)) =>
              /\ result.ok
              /\ result.val.validation_code_hash = Unwrap(c.future_validation_code)[2]
              /\ result.val.future_validation_code = None
       /\ (pc = "apply_modifications" /\ ~m.code_upgrade_applied /\ result.ok) =>
              /\ result.val.validation_code_hash = c.validation_code_hash
              /\ result.val.future_validation_code = c.future_validation_code

\* C5 as stated: with code_upgrade_applied and no pending upgrade, both calls
\* fail with AppliedNonexistentCodeUpgrade (whatever else the modifications
\* hold).
C5_Original ==
    /\ (/\ Called(CheckOrApply)
        /\ modifications.code_upgrade_applied
        /\ constraints.future_validation_code = None) =>
           result = Err(AppliedNonexistentCodeUpgrade)
    /\ C5_UpgradeApplied

\* C5 (amended): with code_upgrade_applied and no pending upgrade, both calls
\* fail, and with AppliedNonexistentCodeUpgrade when all other checks pass (it
\* is the last check made); a pending upgrade (n, H) is applied when all other
\* checks pass, leaving validation_code_hash = H and no pending upgrade; without
\* code_upgrade_applied both fields are those of c.
C5_CodeUpgrade ==
    /\ (/\ Called(CheckOrApply)
        /\ modifications.code_upgrade_applied
        /\ constraints.future_validation_code = None) =>
           /\ ~result.ok
           /\ (WatermarkAllowed(constraints, modifications)
                  /\ BudgetsWithin(constraints, modifications)) =>
                 result = Err(AppliedNonexistentCodeUpgrade)
    /\ C5_UpgradeApplied

\* A pending upgrade was applied: the code hash changed to the pending one.
C5_Witness ==
    /\ pc = "apply_modifications" /\ result.ok
    /\ modifications.code_upgrade_applied
    /\ constraints.future_validation_code = Some(<<1, "code2">>)
    /\ constraints.validation_code_hash = "code1"
    /\ result.val.validation_code_hash = "code2"
    /\ result.val.future_validation_code = None

----------------------------------------------------------------------------
(* SpecStack: a caller holding three consecutive ConstraintModifications   *)
(* (oldest first) stacks neighbours, the newer onto the older, until one   *)
(* value is left.                                                          *)

\* The modifications stacked: every field is at its identity() value or at one
\* of a few others.
StackModifications ==
    [required_parent : {None} \cup {Some(h) : h \in HeadDatas},
     hrmp_watermark : {None, Some(1), Some(MaxBlock)},
     outbound_hrmp : HashMaps(ParaIds, {[bytes_submitted |-> 2, messages_submitted |-> 1]})
                        \cup {1 :> [bytes_submitted |-> UsizeMax, messages_submitted |-> 1]},
     ump_messages_sent : {0, 1, UsizeMax},
     ump_bytes_sent : {0, 1},
     dmp_messages_processed : {0, 1},
     code_upgrade_applied : BOOLEAN]

\* The number of fields of m that differ from identity().
Touched(m) == Cardinality({f \in DOMAIN m : m[f] # identity[f]})
TouchedBy == {<<Touched(m), m>> : m \in StackModifications}
TouchingExactly(n) == {t[2] : t \in {u \in TouchedBy : u[1] = n}}

\* Three modifications touching at most MaxTouched fields in total.
StackInputs ==
    UNION {TouchingExactly(n[1]) \X TouchingExactly(n[2]) \X TouchingExactly(n[3]) :
              n \in {t \in (0..MaxTouched) \X (0..MaxTouched) \X (0..MaxTouched) :
                        t[1] + t[2] + t[3] <= MaxTouched}}

InitStack ==
    /\ pc = "start"
    /\ operands \in StackInputs
    /\ queue = operands
    /\ constraints = Idle /\ modifications = Idle /\ hrmp_order = Idle
    /\ relay_parent = Idle /\ candidate = Idle /\ fragment = Idle
    /\ result = Idle

\* queue with its i-th and (i+1)-th entries replaced by m.
Merged(i, m) ==
    SubSeq(queue, 1, i - 1) \o <<m>> \o SubSeq(queue, i + 2, Len(queue))

\* pc, queue and result after queue[i].stack(&queue[i + 1]): with
\* overflow-checks on, an overflowing `+=` panics.
Stacked(i, overflow_checks, name) ==
    IF overflow_checks /\ stack_overflows(queue[i], queue[i + 1])
    THEN [pc |-> "panicked", queue |-> queue, result |-> "panic"]
    ELSE [pc |-> name,
          queue |-> Merged(i, stack(queue[i], queue[i + 1])),
          result |-> Unit]

\* The oldest modifications get the next ones stacked onto them.
StackOntoOldest ==
    /\ pc # "panicked"
    /\ Len(queue) >= 2
    /\ \E overflow_checks \in BOOLEAN :
          LET next == Stacked(1, overflow_checks, "stack_onto_oldest")
          IN pc' = next.pc /\ queue' = next.queue /\ result' = next.result
    /\ UNCHANGED <<constraints, modifications, hrmp_order, operands,
                   relay_parent, candidate, fragment>>

\* The second oldest get the newest stacked onto them first.
StackOntoSecond ==
    /\ pc # "panicked"
    /\ Len(queue) >= 3
    /\ \E overflow_checks \in BOOLEAN :
          LET next == Stacked(2, overflow_checks, "stack_onto_second")
          IN pc' = next.pc /\ queue' = next.queue /\ result' = next.result
    /\ UNCHANGED <<constraints, modifications, hrmp_order, operands,
                   relay_parent, candidate, fragment>>

NextStack == StackOntoOldest \/ StackOntoSecond

SpecStack == InitStack /\ [][NextStack]_vars

----------------------------------------------------------------------------
(* C6                                                                      *)

\* The oldest two operands have been stacked: queue[1] is a.stack(b) for
\* a = operands[1], b = operands[2].
StackedOldestTwo == pc = "stack_onto_oldest" /\ Len(queue) = 2

\* C6: after a.stack(b), hrmp_watermark and required_parent are b's when b's
\* is Some and a's otherwise; with different Some watermarks a.stack(b) keeps
\* b's, b.stack(a) keeps a's, and the two differ.
C6_LaterOverrideWins ==
    StackedOldestTwo =>
        LET a == operands[1]
            b == operands[2]
            ab == queue[1]
        IN /\ ab.hrmp_watermark =
                 IF b.hrmp_watermark # None THEN b.hrmp_watermark ELSE a.hrmp_watermark
           /\ ab.required_parent =
                 IF b.required_parent # None THEN b.required_parent ELSE a.required_parent
           /\ (/\ a.hrmp_watermark # None /\ b.hrmp_watermark # None
               /\ a.hrmp_watermark # b.hrmp_watermark) =>
                  /\ ab.hrmp_watermark = b.hrmp_watermark
                  /\ stack(b, a).hrmp_watermark = a.hrmp_watermark
                  /\ ab # stack(b, a)

\* Two modifications with different watermarks were stacked and the newer
\* watermark is the one kept.
C6_Witness ==
    /\ StackedOldestTwo
    /\ operands[1].hrmp_watermark = Some(1)
    /\ operands[2].hrmp_watermark = Some(MaxBlock)
    /\ queue[1].hrmp_watermark = Some(MaxBlock)

----------------------------------------------------------------------------
(* C9                                                                      *)

\* The counters of the three operands add up within usize, per counter.
SumsInRange(ops) ==
    /\ ops[1].ump_messages_sent + ops[2].ump_messages_sent
          + ops[3].ump_messages_sent <= UsizeMax
    /\ ops[1].ump_bytes_sent + ops[2].ump_bytes_sent + ops[3].ump_bytes_sent <= UsizeMax
    /\ ops[1].dmp_messages_processed + ops[2].dmp_messages_processed
          + ops[3].dmp_messages_processed <= UsizeMax
    /\ \A id \in ParaIds :
          LET sent(m) == IF id \in DOMAIN m.outbound_hrmp
                         THEN m.outbound_hrmp[id]
                         ELSE [bytes_submitted |-> 0, messages_submitted |-> 0]
          IN /\ sent(ops[1]).bytes_submitted + sent(ops[2]).bytes_submitted
                   + sent(ops[3]).bytes_submitted <= UsizeMax
             /\ sent(ops[1]).messages_submitted + sent(ops[2]).messages_submitted
                   + sent(ops[3]).messages_submitted <= UsizeMax

\* C9: with the counter sums in range, whichever neighbours are stacked first
\* the one value left is the same ((a.b).c = a.(b.c)); identity().stack(m) is m
\* and m.stack(identity()) is m.
C9_StackIsMonoid ==
    LET a == operands[1]
        b == operands[2]
        c == operands[3]
    IN /\ SumsInRange(operands) => pc # "panicked"
       /\ (Len(queue) = 1 /\ SumsInRange(operands)) =>
              /\ queue[1] = stack(stack(a, b), c)
              /\ queue[1] = stack(a, stack(b, c))
       /\ (pc = "stack_onto_second" /\ SumsInRange(operands)) =>
              stack(queue[1], queue[2]) = stack(stack(a, b), c)
       /\ (StackedOldestTwo /\ a = identity) => queue[1] = b
       /\ (StackedOldestTwo /\ b = identity) => queue[1] = a

\* Three modifications that each send an upward message were stacked into one
\* that sends three.
C9_Witness ==
    /\ Len(queue) = 1 /\ pc = "stack_onto_oldest"
    /\ \A i \in 1..3 : operands[i].ump_messages_sent = 1
    /\ queue[1].ump_messages_sent = 3

----------------------------------------------------------------------------
(* SpecFragment: a caller builds a Fragment from a relay parent, operating *)
(* constraints and a candidate, and validates the Fragment it got against  *)
(* later constraints.                                                      *)

\* The relay parent of the candidates: block 2.
RelayParent == [hash |-> "relay2", number |-> 2, storage_root |-> "root1"]

\* Operating constraints: two registered channels, the first with room for
\* Quota + 1 one-byte messages and the second short of messages; room for Quota + 1 upward messages but
\* not for their bytes; a max_pov_size within u32 or beyond it; an upgrade
\* pending at any block, or none.
FragmentConstraints ==
    {[MkConstraints(Quota, RangeVec(1, MaxBlock - 1),
                    (1 :> [bytes_remaining |-> Quota + 1, messages_remaining |-> Quota + 1])
                    @@ (2 :> [bytes_remaining |-> 2 * (Quota + 1), messages_remaining |-> Quota]),
                    f)
         EXCEPT !.max_pov_size = pov, !.ump_remaining = Quota + 1,
                !.ump_remaining_bytes = Quota + 2] :
        pov \in {1, 1 + U32Mod},
        f \in {None} \cup {Some(<<at, "code2">>) : at \in BlockNumbers}}

\* The sequences over S of length at most n.
SeqsUpTo(S, n) == UNION {[1..k -> S] : k \in 0..n}

\* One byte to para 1, two bytes to para 2.
HorizontalMessages ==
    {[recipient |-> 1, data |-> <<0>>], [recipient |-> 2, data |-> <<0, 0>>]}

Candidates ==
    [commitments :
        [head_data : {"head2"},
         hrmp_watermark : {1, MaxBlock},
         horizontal_messages :
            SeqsUpTo(HorizontalMessages, Quota + 1),
         upward_messages : SeqsUpTo({<<0, 0>>}, Quota + 2),
         processed_downward_messages : {0, Quota + 1},
         new_validation_code : {None}],
     collator : {"collator"},
     collator_signature : {"signature"},
     persisted_validation_data :
        [parent_head : HeadDatas,
         relay_parent_number : {1, 2},
         relay_parent_storage_root : {"root1", "root2"},
         max_pov_size : {0, 1}],
     pov_hash : {"pov"},
     validation_code_hash : CodeHashes]

\* The constraints a Fragment built under `operating` is validated against
\* later: the same, or with the upgrade gone, the UMP budget used up, or the
\* parent advanced.
LaterConstraints(operating) ==
    {operating,
     [operating EXCEPT !.future_validation_code = None],
     [operating EXCEPT !.ump_remaining = 0],
     [operating EXCEPT !.required_parent = "head2"]}

InitFragment ==
    /\ pc = "start"
    /\ relay_parent = RelayParent
    /\ constraints \in FragmentConstraints
    /\ candidate \in Candidates
    /\ fragment = None
    /\ modifications = Idle /\ hrmp_order = Idle
    /\ operands = Idle /\ queue = Idle
    /\ result = Idle

\* Fragment::new(relay_parent, constraints, candidate)
FragmentNew ==
    /\ pc = "start"
    /\ pc' = "Fragment_new"
    /\ modifications' = derive_modifications(relay_parent, constraints, candidate)
    /\ hrmp_order' \in IterOrders(DOMAIN modifications'.outbound_hrmp)
    /\ result' = Fragment_new(relay_parent, constraints, candidate,
                              modifications', hrmp_order')
    /\ fragment' = IF result'.ok THEN Some(result'.val) ELSE None
    /\ UNCHANGED <<constraints, operands, queue, relay_parent, candidate>>

\* fragment.validate_against_constraints(&later)
ValidateAgainstConstraints ==
    /\ pc = "Fragment_new"
    /\ IsSome(fragment)
    /\ pc' = "validate_against_constraints"
    /\ constraints' \in LaterConstraints(Unwrap(fragment).operating_constraints)
    /\ result' = validate_against_constraints(constraints',
                                              Unwrap(fragment).relay_parent,
                                              Unwrap(fragment).candidate,
                                              Unwrap(fragment).modifications,
                                              hrmp_order)
    /\ UNCHANGED <<modifications, hrmp_order, operands, queue,
                   relay_parent, candidate, fragment>>

NextFragment == FragmentNew \/ ValidateAgainstConstraints

SpecFragment == InitFragment /\ [][NextFragment]_vars

----------------------------------------------------------------------------
(* What the candidate declares, counted from its commitments.              *)

\* The positions of the horizontal messages addressed to r.
SentTo(r) ==
    {i \in 1..Len(candidate.commitments.horizontal_messages) :
        candidate.commitments.horizontal_messages[i].recipient = r}

\* The bytes of the messages at positions I of msgs, one element per byte.
BytesOf(payloads, I) == UNION {{<<i, j>> : j \in 1..Len(payloads[i])} : i \in I}

BytesSentTo(r) ==
    Cardinality(BytesOf([i \in 1..Len(candidate.commitments.horizontal_messages) |->
                            candidate.commitments.horizontal_messages[i].data],
                        SentTo(r)))

UpwardBytes ==
    Cardinality(BytesOf(candidate.commitments.upward_messages,
                        1..Len(candidate.commitments.upward_messages)))

\* The persisted validation data the constraints and relay parent call for.
RequiredPvd ==
    [parent_head |-> constraints.required_parent,
     relay_parent_number |-> relay_parent.number,
     relay_parent_storage_root |-> relay_parent.storage_root,
     max_pov_size |-> constraints.max_pov_size]

\* Fragment::new has returned.
Built == pc = "Fragment_new"

----------------------------------------------------------------------------
(* C7                                                                      *)

\* C7 as stated: Fragment::new returns a Fragment (holding the relay parent,
\* the constraints, the candidate and the derived modifications) exactly when
\* the candidate's persisted validation data equals (required_parent, relay
\* parent number, relay parent storage root, constraints.max_pov_size), its
\* validation code hash equals the constraints' and check_modifications
\* accepts the derived modifications; otherwise it returns
\* PersistedValidationDataMismatch if the data differ, else
\* ValidationCodeMismatch(expected, got) if the hashes differ, else
\* OutputsInvalid(e) with e the error of check_modifications.
C7_Original ==
    Built =>
        LET got == candidate.persisted_validation_data
            outputs == check_modifications(constraints, modifications, hrmp_order)
        IN IF RequiredPvd # got
           THEN /\ ~result.ok
                /\ result.err.kind = "PersistedValidationDataMismatch"
                /\ result.err.got = got
           ELSE IF constraints.validation_code_hash # candidate.validation_code_hash
           THEN result = Err(ValidationCodeMismatch(constraints.validation_code_hash,
                                                    candidate.validation_code_hash))
           ELSE IF ~outputs.ok
           THEN result = Err(OutputsInvalid(outputs.err))
           ELSE result = Ok([relay_parent |-> relay_parent,
                             operating_constraints |-> constraints,
                             candidate |-> candidate,
                             modifications |-> modifications])

----------------------------------------------------------------------------
(* C8                                                                      *)

\* C8: the modifications Fragment::new derives carry the candidate's head data
\* as required_parent and its watermark as hrmp_watermark, one outbound_hrmp
\* entry per recipient of a horizontal message with the number and the total
\* bytes of the messages to that recipient, the number and total bytes of the
\* upward messages, and the declared count of processed downward messages;
\* a Fragment that is returned holds them. Hence a candidate with n upward
\* messages against ump_remaining = k < n gets
\* OutputsInvalid(UmpMessagesOverflow(k, n)) whenever its persisted
\* validation data, code hash, watermark and HRMP entries pass.
C8_DerivedModifications ==
    Built =>
        LET commitments == candidate.commitments
            n == Len(commitments.upward_messages)
            k == constraints.ump_remaining
        IN /\ modifications.required_parent = Some(commitments.head_data)
           /\ modifications.hrmp_watermark = Some(commitments.hrmp_watermark)
           /\ DOMAIN modifications.outbound_hrmp = {r \in ParaIds : SentTo(r) # {}}
           /\ \A r \in DOMAIN modifications.outbound_hrmp :
                 modifications.outbound_hrmp[r] =
                    [bytes_submitted |-> BytesSentTo(r),
                     messages_submitted |-> Cardinality(SentTo(r))]
           /\ modifications.ump_messages_sent = n
           /\ modifications.ump_bytes_sent = UpwardBytes
           /\ modifications.dmp_messages_processed = commitments.processed_downward_messages
           /\ result.ok => result.val.modifications = modifications
           /\ ( /\ candidate.persisted_validation_data =
                      [RequiredPvd EXCEPT !.max_pov_size = as_u32(constraints.max_pov_size)]
                /\ candidate.validation_code_hash = constraints.validation_code_hash
                /\ \E p \in 1..Len(constraints.hrmp_inbound.valid_watermarks) :
                      constraints.hrmp_inbound.valid_watermarks[p] = commitments.hrmp_watermark
                /\ \A r \in ParaIds :
                      SentTo(r) # {} =>
                         /\ r \in DOMAIN constraints.hrmp_channels_out
                         /\ BytesSentTo(r) <= constraints.hrmp_channels_out[r].bytes_remaining
                         /\ Cardinality(SentTo(r)) <=
                               constraints.hrmp_channels_out[r].messages_remaining
                /\ k < n )
              => result = Err(OutputsInvalid(UmpMessagesOverflow(k, n)))

\* Three upward messages against room for two, after two horizontal messages
\* to the same recipient were aggregated.
C8_Witness ==
    /\ Built
    /\ result = Err(OutputsInvalid(UmpMessagesOverflow(Quota + 1, Quota + 2)))
    /\ \E r \in DOMAIN modifications.outbound_hrmp :
          modifications.outbound_hrmp[r].messages_submitted > 1

----------------------------------------------------------------------------
(* C10                                                                     *)

\* C10 as stated: neither Fragment::new nor validate_against_constraints
\* accepts a candidate that carries more horizontal messages than the
\* constraints' max_hrmp_num_per_candidate.
C10_Original ==
    (pc \in {"Fragment_new", "validate_against_constraints"} /\ result.ok) =>
        Len(candidate.commitments.horizontal_messages) <=
            constraints.max_hrmp_num_per_candidate

----------------------------------------------------------------------------
(* C11                                                                     *)

\* C11 as stated: whenever the integer constraints.max_pov_size differs from
\* the candidate's persisted_validation_data.max_pov_size, Fragment::new and
\* validate_against_constraints fail with PersistedValidationDataMismatch,
\* also when the two only agree modulo the width of u32.
C11_Original ==
    ( /\ pc \in {"Fragment_new", "validate_against_constraints"}
      /\ constraints.max_pov_size # candidate.persisted_validation_data.max_pov_size )
    => ( /\ ~result.ok
         /\ result.err.kind = "PersistedValidationDataMismatch" )

----------------------------------------------------------------------------
(* C12                                                                     *)

\* What m submits to id: the entry of id, or zeros without one.
SubmittedTo(m, id) ==
    IF id \in DOMAIN m.outbound_hrmp
    THEN m.outbound_hrmp[id]
    ELSE [bytes_submitted |-> 0, messages_submitted |-> 0]

\* C12 as stated: stack never aborts, and after a.stack(b) every counter of
\* the result (ump_messages_sent, ump_bytes_sent, dmp_messages_processed and
\* each destination's bytes_submitted and messages_submitted) is the exact sum
\* of the counters of a and b, for any counters of the width of usize.
C12_Original ==
    /\ pc # "panicked"
    /\ StackedOldestTwo =>
          LET a == operands[1]
              b == operands[2]
              ab == queue[1]
          IN /\ ab.ump_messages_sent = a.ump_messages_sent + b.ump_messages_sent
             /\ ab.ump_bytes_sent = a.ump_bytes_sent + b.ump_bytes_sent
             /\ ab.dmp_messages_processed =
                   a.dmp_messages_processed + b.dmp_messages_processed
             /\ \A id \in DOMAIN ab.outbound_hrmp :
                   /\ ab.outbound_hrmp[id].bytes_submitted =
                         SubmittedTo(a, id).bytes_submitted
                            + SubmittedTo(b, id).bytes_submitted
                   /\ ab.outbound_hrmp[id].messages_submitted =
                         SubmittedTo(a, id).messages_submitted
                            + SubmittedTo(b, id).messages_submitted

----------------------------------------------------------------------------
(* C13                                                                     *)

\* The first failure of the entry of id: no channel, then bytes, then messages.
EntryError(c, m, id) ==
    IF id \notin DOMAIN c.hrmp_channels_out
    THEN NoSuchHrmpChannel(id)
    ELSE IF ~BytesWithin(c, m, id)
    THEN HrmpBytesOverflow(id, c.hrmp_channels_out[id].bytes_remaining,
                           m.outbound_hrmp[id].bytes_submitted)
    ELSE HrmpMessagesOverflow(id, c.hrmp_channels_out[id].messages_remaining,
                              m.outbound_hrmp[id].messages_submitted)

\* The entry of id fails.
EntryFails(c, m, id) ==
    \/ id \notin DOMAIN c.hrmp_channels_out
    \/ ~BytesWithin(c, m, id)
    \/ ~MessagesWithin(c, m, id)

\* C13 as stated: the error returned is that of the earliest violated rule in
\* the fixed order watermark, missing channel, HRMP bytes, HRMP messages, UMP
\* messages, UMP bytes, DMP messages, code upgrade; so among several failing
\* outbound entries a missing channel is reported before a bytes overflow and
\* a bytes overflow before a messages overflow.
C13_Original ==
    (Called(CheckOrApply) /\ WatermarkAllowed(constraints, modifications)
        /\ ~HrmpWithin(constraints, modifications)) =>
        /\ ~result.ok
        /\ result.err.kind =
              IF ~ChannelsRegistered(constraints, modifications)
              THEN "NoSuchHrmpChannel"
              ELSE IF \E id \in DOMAIN modifications.outbound_hrmp :
                         ~BytesWithin(constraints, modifications, id)
              THEN "HrmpBytesOverflow"
              ELSE "HrmpMessagesOverflow"

\* C13: check_modifications and apply_modifications return the error of the
\* earliest violated rule in the order watermark, outbound HRMP, UMP messages,
\* UMP bytes, DMP messages, code upgrade; the outbound HRMP error is that of
\* the first failing entry in the iteration order of the map, and for that
\* entry missing channel comes before bytes overflow and bytes overflow before
\* messages overflow. apply_modifications returns the error that
\* check_modifications returns on the same constraints and modifications.
C13_ErrorOrder ==
    Called(CheckOrApply) =>
        LET c == constraints
            m == modifications
        IN IF ~WatermarkAllowed(c, m)
           THEN result = Err(DisallowedHrmpWatermark(Unwrap(m.hrmp_watermark)))
           ELSE IF ~HrmpWithin(c, m)
           THEN /\ ~result.ok
                /\ \E id \in DOMAIN m.outbound_hrmp :
                      /\ EntryFails(c, m, id)
                      /\ EarlierEntriesWithin(c, m, hrmp_order, id)
                      /\ result.err = EntryError(c, m, id)
           ELSE IF ~UmpMessagesWithin(c, m)
           THEN result = Err(UmpMessagesOverflow(c.ump_remaining, m.ump_messages_sent))
           ELSE IF ~UmpBytesWithin(c, m)
           THEN result = Err(UmpBytesOverflow(c.ump_remaining_bytes, m.ump_bytes_sent))
           ELSE IF ~DmpWithin(c, m)
           THEN result = Err(DmpMessagesUnderflow(c.dmp_remaining_messages,
                                                  m.dmp_messages_processed))
           ELSE IF ~UpgradeAvailable(c, m)
           THEN result = Err(AppliedNonexistentCodeUpgrade)
           ELSE result.ok

\* A disallowed watermark together with UMP messages and UMP bytes over their
\* budgets: apply_modifications reports the watermark.
C13_Witness ==
    /\ pc = "apply_modifications"
    /\ ~WatermarkAllowed(constraints, modifications)
    /\ ~UmpMessagesWithin(constraints, modifications)
    /\ ~UmpBytesWithin(constraints, modifications)
    /\ result.ok = FALSE
    /\ result.err.kind = "DisallowedHrmpWatermark"

----------------------------------------------------------------------------
(* C14                                                                     *)

\* An upgrade is pending under cons at or before the block of relay.
UpgradeDue(cons, relay) ==
    /\ cons.future_validation_code # None
    /\ Unwrap(cons.future_validation_code)[1] <= relay.number

\* C14: the modifications of a Fragment returned by Fragment::new have
\* code_upgrade_applied true exactly when the operating constraints have an
\* upgrade pending at a block at <= relay_parent.number; the Fragment, and
\* with it the flag, never changes afterwards, and a later
\* validate_against_constraints uses that flag: against constraints without a
\* pending upgrade that otherwise pass, it fails with
\* OutputsInvalid(AppliedNonexistentCodeUpgrade) exactly when the flag is true.
C14_UpgradeFlag ==
    /\ [](IsSome(fragment) =>
            LET built == Unwrap(fragment)
                flag == built.modifications.code_upgrade_applied
            IN /\ flag = UpgradeDue(built.operating_constraints, built.relay_parent)
               /\ (/\ pc = "validate_against_constraints"
                   /\ constraints =
                         [built.operating_constraints
                             EXCEPT !.future_validation_code = None])
                  => result = IF flag
                              THEN Err(OutputsInvalid(AppliedNonexistentCodeUpgrade))
                              ELSE Ok(Unit))
    /\ [][IsSome(fragment) => fragment' = fragment]_vars

\* A Fragment built at the very block its upgrade is scheduled at carries the
\* flag, and its validation against constraints without the upgrade fails.
C14_Witness ==
    /\ pc = "validate_against_constraints"
    /\ IsSome(fragment)
    /\ Unwrap(fragment).operating_constraints.future_validation_code
          = Some(<<relay_parent.number, "code2">>)
    /\ Unwrap(fragment).modifications.code_upgrade_applied
    /\ result = Err(OutputsInvalid(AppliedNonexistentCodeUpgrade))

----------------------------------------------------------------------------
(* SpecChain: a caller keeps a chain of constraints, applies modifications *)
(* to the newest one after another, and applies the stacked modifications  *)
(* of the chain to the constraints the chain started from.                 *)

\* Constraints with room for Quota + 1 in every budget, two registered
\* channels, a pending upgrade and any ascending list of valid watermarks.
ChainConstraints ==
    {MkConstraints(Quota + 1, w,
                   (1 :> Limitations(Quota + 1)) @@ (2 :> Limitations(Quota + 1)),
                   Some(<<1, "code2">>)) :
        w \in AscendingVecs(MaxBlock)}

\* The modifications of a candidate that advances the head and the watermark
\* and sends one message each way.
CandidateModifications(w) ==
    [required_parent |-> Some("head2"),
     hrmp_watermark |-> Some(w),
     outbound_hrmp |-> 1 :> [bytes_submitted |-> 1, messages_submitted |-> 1],
     ump_messages_sent |-> 1,
     ump_bytes_sent |-> 1,
     dmp_messages_processed |-> 1,
     code_upgrade_applied |-> FALSE]

\* identity(), modifications that only move the watermark, only apply the
\* upgrade, only send one upward message or only send to para 2, and those of
\* candidates.
ChainModifications ==
    {identity}
    \cup {[identity EXCEPT !.hrmp_watermark = Some(w)] : w \in BlockNumbers}
    \cup {[identity EXCEPT !.code_upgrade_applied = TRUE]}
    \cup {[identity EXCEPT !.ump_messages_sent = 1]}
    \cup {[identity EXCEPT !.outbound_hrmp =
                              2 :> [bytes_submitted |-> 1, messages_submitted |-> 1]]}
    \cup {CandidateModifications(w) : w \in BlockNumbers}

\* ops[1].stack(&ops[2]), ..., .stack(&ops[n]) (wrapping).
RECURSIVE StackedUpTo(_, _)
StackedUpTo(ops, n) ==
    IF n = 1 THEN ops[1] ELSE stack(StackedUpTo(ops, n - 1), ops[n])

\* One of those stack calls overflows a counter.
ChainOverflows(ops) ==
    \E n \in 2..Len(ops) : stack_overflows(StackedUpTo(ops, n - 1), ops[n])

InitChain ==
    /\ pc = "start"
    /\ constraints \in ChainConstraints
    /\ queue = <<constraints>>
    /\ operands = <<>>
    /\ modifications = Idle /\ hrmp_order = Idle
    /\ relay_parent = Idle /\ candidate = Idle /\ fragment = Idle
    /\ result = Idle

\* newest.apply_modifications(&m); on Ok the result becomes the newest
\* constraints of the chain and m its newest modifications.
ApplyToChain ==
    /\ pc # "panicked"
    /\ Len(operands) < MaxChain
    /\ pc' = "apply_to_chain"
    /\ modifications' \in ChainModifications
    /\ hrmp_order' \in IterOrders(DOMAIN modifications'.outbound_hrmp)
    /\ result' = apply_modifications(queue[Len(queue)], modifications', hrmp_order')
    /\ queue' = IF result'.ok THEN Append(queue, result'.val) ELSE queue
    /\ operands' = IF result'.ok THEN Append(operands, modifications') ELSE operands
    /\ UNCHANGED <<constraints, relay_parent, candidate, fragment>>

\* The modifications of the chain are stacked in chain order and applied to
\* the constraints the chain started from; with overflow-checks on, an
\* overflowing `+=` in stack panics.
ApplyStacked ==
    /\ pc # "panicked"
    /\ Len(operands) >= 2
    /\ \E overflow_checks \in BOOLEAN :
          IF overflow_checks /\ ChainOverflows(operands)
          THEN /\ pc' = "panicked"
               /\ result' = "panic"
               /\ UNCHANGED <<modifications, hrmp_order>>
          ELSE /\ pc' = "apply_stacked"
               /\ modifications' = StackedUpTo(operands, Len(operands))
               /\ hrmp_order' \in IterOrders(DOMAIN modifications'.outbound_hrmp)
               /\ result' = apply_modifications(queue[1], modifications', hrmp_order')
    /\ UNCHANGED <<constraints, operands, queue, relay_parent, candidate, fragment>>

NextChain == ApplyToChain \/ ApplyStacked

SpecChain == InitChain /\ [][NextChain]_vars

----------------------------------------------------------------------------
(* C15                                                                     *)

\* C15: when the modifications of a chain were applied one after another
\* with every step Ok, stacking them in chain order does not abort and
\* applying the stacked modifications to the constraints the chain started
\* from is Ok with the constraints the last step returned (same
\* required_parent, remaining watermarks, channel budgets, UMP and DMP budgets,
\* code hash and pending upgrade).
C15_StackedAgrees ==
    /\ pc # "panicked"
    /\ pc = "apply_stacked" => result = Ok(queue[Len(queue)])

\* Two candidates with watermarks 1 and 2 were applied one after another, and
\* the stacked modifications gave the same constraints, charged twice.
C15_Witness ==
    /\ pc = "apply_stacked"
    /\ operands = <<CandidateModifications(1), CandidateModifications(2)>>
    /\ modifications.ump_messages_sent = 2
    /\ result.ok
    /\ result.val = queue[3]
    /\ result.val.ump_remaining = constraints.ump_remaining - 2

\* The converse does not hold: the newest step was rejected, yet the chain
\* with the rejected modifications stacked on top is accepted by the
\* constraints the chain started from.
C15_ConverseFails ==
    /\ pc = "apply_to_chain"
    /\ ~result.ok
    /\ Len(operands) >= 1
    /\ apply_modifications(queue[1],
                           stack(StackedUpTo(operands, Len(operands)), modifications),
                           hrmp_order).ok

----------------------------------------------------------------------------
(* C16                                                                     *)

\* v is what is left of w after some first entries were removed.
IsSuffix(v, w) == \E k \in 0..Len(w) : v = SubSeq(w, k + 1, Len(w))

StrictlyAscending(v) == \A i, j \in 1..Len(v) : i < j => v[i] < v[j]

\* The modifications applied to the chain before the call that was just made.
AppliedBefore ==
    IF pc = "apply_to_chain" /\ result.ok
    THEN SubSeq(operands, 1, Len(operands) - 1)
    ELSE operands

\* C16: starting from strictly ascending valid_watermarks, after any sequence
\* of successful apply_modifications calls the valid_watermarks of each
\* constraints of the chain is a suffix of those before it, hence of the
\* original list, and is strictly ascending; and a modification whose
\* watermark is less than or equal to one applied earlier in the chain is
\* rejected with DisallowedHrmpWatermark.
C16_WatermarksInOrder ==
    /\ StrictlyAscending(queue[1].hrmp_inbound.valid_watermarks)
    /\ \A i \in 2..Len(queue) :
          /\ IsSuffix(queue[i].hrmp_inbound.valid_watermarks,
                      queue[i - 1].hrmp_inbound.valid_watermarks)
          /\ IsSuffix(queue[i].hrmp_inbound.valid_watermarks,
                      queue[1].hrmp_inbound.valid_watermarks)
          /\ StrictlyAscending(queue[i].hrmp_inbound.valid_watermarks)
    /\ (/\ pc = "apply_to_chain"
        /\ modifications.hrmp_watermark # None
        /\ \E k \in 1..Len(AppliedBefore) :
              /\ AppliedBefore[k].hrmp_watermark # None
              /\ Unwrap(modifications.hrmp_watermark)
                    <= Unwrap(AppliedBefore[k].hrmp_watermark))
       => result = Err(DisallowedHrmpWatermark(Unwrap(modifications.hrmp_watermark)))

\* Watermark 2 was applied to constraints that allowed 1 and 2; the next
\* modification names watermark 1 and is rejected.
C16_Witness ==
    /\ pc = "apply_to_chain"
    /\ Len(operands) >= 1
    /\ \E p \in 1..Len(queue[1].hrmp_inbound.valid_watermarks) :
          queue[1].hrmp_inbound.valid_watermarks[p] = 1
    /\ operands[Len(operands)].hrmp_watermark = Some(2)
    /\ modifications.hrmp_watermark = Some(1)
    /\ result = Err(DisallowedHrmpWatermark(1))

====
